---- MODULE Spec2Model ----
(***************************************************************************)
(* Model of wgslPreprocessor.cpp: the include walk (findIncludes), the     *)
(* ordering helper (convertActiveIncludesToVector) and main's emission     *)
(* pass.                                                                   *)
(*                                                                         *)
(* A line is a sequence of one-character strings, a file a sequence of     *)
(* lines, and the file system a function from the names of the existing    *)
(* files to their contents.  All files live in one directory, so that      *)
(* `currentBaseDir / name` followed by canonical() yields the file of that *)
(* name when it exists and stays an unresolved path otherwise; a path is   *)
(* represented by the name.                                                *)
(***************************************************************************)
EXTENDS Integers, Sequences, FiniteSets, TLC

VARIABLES
    fs,              \* the files on disk: name -> sequence of lines
    unreadable,      \* existing files that cannot be opened for reading
    pc,              \* main's position: start, walk, output, emit, done, crash
    argc,            \* argument count given to main (0 before main starts)
    inputFile,       \* the input file argument, resolved ("" before main reads it)
    exitCode,        \* main's return value (-1 while running)
    activeIncludes,  \* the depth map: path -> depth
    stack,           \* the findIncludes frames, innermost last
    ret,             \* value returned by the call that has just returned
    walkResult,      \* value returned by the root call of findIncludes
    outputOpened,    \* the output file has been opened (created or truncated)
    includes,        \* the vector built by convertActiveIncludesToVector
    emitPos,         \* index in includes of the next file to emit
    output,          \* the lines written to the output stream
    called,          \* history: the <<path, depth>> pairs findIncludes was entered with
    opens,           \* history: number of discovery-pass opens of each path
    visited,         \* history: the <<file, line index>> directives a call was made for
    emitted,         \* history: the files copied by the emission pass, in order
    emitSkipped      \* history: the files the emission pass could not open

vars == <<fs, unreadable, pc, argc, inputFile, exitCode, activeIncludes, stack, ret,
          walkResult, outputOpened, includes, emitPos, output, called,
          opens, visited, emitted, emitSkipped>>

walkVars == <<activeIncludes, stack, ret, called, opens, visited>>
emitVars == <<includes, emitPos, output, emitted, emitSkipped>>

----------------------------------------------------------------------------
(* Bounds of the model. *)

NFiles == 2      \* files of the general (possibly cyclic) inputs
MaxLines == 2    \* total number of lines of a general input
NDag == 4        \* files of the acyclic inputs
MaxEdges == 4    \* total number of directives of an acyclic input
MaxDepth == 6    \* deepest findIncludes frame the call stack can hold
MaxEmitFailures == 1   \* files that stop being readable before the emission pass
MaxPad == 6      \* lines without a directive in a row, in the padded inputs
MaxChain == 4    \* total number of directives of a directive-only input

(* Program constant: the scan stops after this many consecutive lines      *)
(* without a directive.                                                    *)
ScanWindow == 5

----------------------------------------------------------------------------
(* Lines. *)

NameSeq == <<"a", "b", "c", "d", "e", "f", "g", "h">>
Name(i) == NameSeq[i]
Names(n) == {Name(i) : i \in 1..n}
Root == "a"
Missing == "x"      \* a name no file has

IncludePrefix == <<"#", "i", "n", "c", "l", "u", "d", "e", " ", "\"">>
IncludeWord == <<"#", "i", "n", "c", "l", "u", "d", "e">>

Directive(n) == IncludePrefix \o <<n, "\"">>             \* #include "n"
Malformed == IncludePrefix \o <<"b">>                    \* #include "b
Mention == <<"/", "/", " ">> \o Directive("b")           \* // #include "b"
Plain == <<"f", "n">>                                    \* fn

(* std::string::rfind(prefix, 0) == 0 *)
StartsWith(line, prefix) ==
    /\ Len(line) >= Len(prefix)
    /\ SubSeq(line, 1, Len(prefix)) = prefix

(* std::string::find(word) != npos *)
Contains(line, word) ==
    \E i \in 1..(Len(line) - Len(word) + 1) :
        SubSeq(line, i, i + Len(word) - 1) = word

(* std::string::find(ch, start): the first index >= start holding ch,     *)
(* 0 for npos (indices are 1-based here).                                  *)
FindChar(line, ch, start) ==
    LET hits == {i \in start..Len(line) : line[i] = ch}
    IN  IF hits = {} THEN 0
        ELSE CHOOSE i \in hits : \A j \in hits : i <= j

IsDirectiveLine(line) == StartsWith(line, IncludePrefix)

EndQuotePos(line) == FindChar(line, "\"", Len(IncludePrefix) + 1)

(* A line that starts with the prefix and has its closing quote. *)
IsValidDirective(line) == IsDirectiveLine(line) /\ EndQuotePos(line) # 0

(* line.substr(start_quote_pos, end_quote_pos - start_quote_pos) *)
IncludedName(line) ==
    SubSeq(line, Len(IncludePrefix) + 1, EndQuotePos(line) - 1)

(* currentBaseDir / name, then removeDot: a one-character name is the path *)
(* of the file of that name; any other text names no file.                 *)
ResolvePath(name) == IF Len(name) = 1 THEN name[1] ELSE Missing

KeepsLine_PrefixOnly(line) == ~StartsWith(line, IncludeWord)

(* The emission pass keeps a line iff it does not contain "#include". *)
KeepsLine(line) == ~Contains(line, IncludeWord)

EmitLines(lines) == SelectSeq(lines, KeepsLine)

----------------------------------------------------------------------------
(* The depth map. *)

HasEntry(m, p) == p \in DOMAIN m
Put(m, p, d) == [q \in DOMAIN m \cup {p} |-> IF q = p THEN d ELSE m[q]]
Erase(m, p) == [q \in DOMAIN m \ {p} |-> m[q]]
EmptyMap == [q \in {} |-> 0]

RevisitSkips_Never(m, p, d) == FALSE

(* The test of line 72: the file has an entry and it is below depth. *)
RevisitSkips(m, p, d) == HasEntry(m, p) /\ m[p] < d

RecordDepth_NoFirstRecord(m, p, d) ==
    IF HasEntry(m, p) /\ m[p] < d THEN Put(m, p, d) ELSE m

RecordDepth_NoRaise(m, p, d) ==
    IF HasEntry(m, p) THEN m ELSE Put(m, p, d)

(* The map after lines 71-80. *)
RecordDepth(m, p, d) ==
    IF HasEntry(m, p)
    THEN IF m[p] < d THEN Put(m, p, d) ELSE m
    ELSE Put(m, p, d)

CanOpen(p) == p \in DOMAIN fs /\ p \notin unreadable

----------------------------------------------------------------------------
(* The inputs. *)

SeqsUpTo(S, n) == UNION {[1..k -> S] : k \in 0..n}

LineLib(names) ==
    {Directive(n) : n \in names \cup {Missing}} \cup {Malformed, Mention, Plain}

(* The file system holding, for each name, the lines a list of            *)
(* <<name, line>> pairs gives it, in the list's order.                     *)
MkFS(names, ll) ==
    [n \in names |->
        LET Mine(e) == e[1] = n
            s == SelectSeq(ll, Mine)
        IN  [i \in 1..Len(s) |-> s[i][2]]]

GeneralFS ==
    LET names == Names(NFiles)
    IN  {MkFS(names, ll) : ll \in SeqsUpTo(names \X LineLib(names), MaxLines)}

(* Acyclic inputs: file i includes only files of a higher index. *)
DagFS ==
    LET names == Names(NDag)
        fwd == {<<Name(e[1]), Directive(Name(e[2]))>> :
                     e \in {x \in (1..NDag) \X (1..NDag) : x[1] < x[2]}}
    IN  {MkFS(names, ll) : ll \in SeqsUpTo(fwd, MaxEdges)}

(* Directive-only inputs, cyclic or not, some naming a file that does not  *)
(* exist.                                                                  *)
ChainFS ==
    LET names == Names(NFiles)
        dirs == {Directive(n) : n \in names \cup {Missing}}
    IN  {MkFS(names, ll) : ll \in SeqsUpTo(names \X dirs, MaxChain)}

(* Padded inputs: the root holds one or two directives, each after a run  *)
(* of up to MaxPad lines that are no directive, with or without a          *)
(* malformed directive in front of the run; the other files hold one plain *)
(* line.                                                                   *)
Rep(line, k) == [i \in 1..k |-> line]

Pads ==
    {Rep(Malformed, m) \o Rep(l, k) :
        m \in 0..1, l \in {Plain, Mention}, k \in 0..MaxPad}

WindowFS ==
    {[n \in Names(3) |-> IF n = Root THEN p \o <<Directive("b")>> \o t
                      ELSE <<Plain>>] :
        p \in Pads, t \in {<<>>} \cup {q \o <<Directive("c")>> : q \in Pads}}

----------------------------------------------------------------------------
Init ==
    /\ fs \in GeneralFS \cup DagFS \cup WindowFS \cup ChainFS
    /\ unreadable = {}
    /\ pc = "start"
    /\ argc = 0
    /\ inputFile = ""
    /\ exitCode = -1
    /\ activeIncludes = EmptyMap
    /\ stack = <<>>
    /\ ret = "none"
    /\ walkResult = "none"
    /\ outputOpened = FALSE
    /\ includes = <<>>
    /\ emitPos = 0
    /\ output = <<>>
    /\ called = {}
    /\ opens = EmptyMap
    /\ visited = {}
    /\ emitted = <<>>
    /\ emitSkipped = {}

----------------------------------------------------------------------------
(* main, up to the call of findIncludes. *)

ArgCounts == 1..4     \* argc: the program name plus zero to three arguments

UsageError_NoUpperBound(n) == n < 2

(* The test of line 130. *)
UsageError(n) == n < 2 \/ n > 3

Frame(p, d) == [file |-> p, depth |-> d, phase |-> "enter", pos |-> 1, nfc |-> 0]

(* Lines 130-134: wrong argument count. *)
MainUsage ==
    /\ pc = "start"
    /\ \E n \in ArgCounts :
        /\ UsageError(n)
        /\ argc' = n
    /\ exitCode' = 1
    /\ pc' = "done"
    /\ UNCHANGED <<fs, unreadable, inputFile, walkResult, outputOpened>>
    /\ UNCHANGED walkVars
    /\ UNCHANGED emitVars

(* Lines 146-159: canonical() of the input file throws when no file has    *)
(* the name given.                                                         *)
MainRootMissing ==
    /\ pc = "start"
    /\ \E n \in ArgCounts, arg \in {Root, Missing} :
        /\ ~UsageError(n)
        /\ arg \notin DOMAIN fs
        /\ argc' = n
        /\ inputFile' = arg
    /\ exitCode' = 1
    /\ pc' = "done"
    /\ UNCHANGED <<fs, unreadable, walkResult, outputOpened>>
    /\ UNCHANGED walkVars
    /\ UNCHANGED emitVars

(* Lines 146-174: the input file exists; findIncludes is called on it at   *)
(* depth 0.  Whether the file can be read is the environment's choice.     *)
MainStartWalk ==
    /\ pc = "start"
    /\ \E n \in ArgCounts, arg \in {Root, Missing} :
        /\ ~UsageError(n)
        /\ arg \in DOMAIN fs
        /\ argc' = n
        /\ inputFile' = arg
        /\ stack' = <<Frame(arg, 0)>>
    /\ \E u \in SUBSET {Root} : unreadable' = u
    /\ pc' = "walk"
    /\ UNCHANGED <<fs, exitCode, walkResult, outputOpened, activeIncludes, ret,
                   called, opens, visited>>
    /\ UNCHANGED emitVars

----------------------------------------------------------------------------
(* findIncludes. *)

Top == stack[Len(stack)]
Pop == SubSeq(stack, 1, Len(stack) - 1)
SetTop(fr) == [stack EXCEPT ![Len(stack)] = fr]
Bump(h, p) == Put(h, p, IF HasEntry(h, p) THEN h[p] + 1 ELSE 1)

(* Lines 71-80: the revisit check. *)
Enter ==
    /\ pc = "walk"
    /\ stack # <<>>
    /\ Top.phase = "enter"
    /\ activeIncludes' = RecordDepth(activeIncludes, Top.file, Top.depth)
    /\ called' = called \cup {<<Top.file, Top.depth>>}
    /\ IF RevisitSkips(activeIncludes, Top.file, Top.depth)
       THEN /\ stack' = Pop
            /\ ret' = "true"
       ELSE /\ stack' = SetTop([Top EXCEPT !.phase = "open"])
            /\ ret' = "none"
    /\ UNCHANGED <<fs, unreadable, pc, argc, inputFile, exitCode, walkResult, outputOpened,
                   opens, visited>>
    /\ UNCHANGED emitVars

Open_KeepsFailedEntry ==
    /\ pc = "walk"
    /\ stack # <<>>
    /\ Top.phase = "open"
    /\ opens' = Bump(opens, Top.file)
    /\ IF CanOpen(Top.file)
       THEN /\ stack' = SetTop([Top EXCEPT !.phase = "scan"])
            /\ ret' = "none"
       ELSE /\ stack' = Pop
            /\ ret' = "false"
    /\ UNCHANGED <<fs, unreadable, pc, argc, inputFile, exitCode, walkResult,
                   outputOpened, activeIncludes, called, visited>>
    /\ UNCHANGED emitVars

(* Lines 81-87: open the file; on failure erase the entry and fail. *)
Open ==
    /\ pc = "walk"
    /\ stack # <<>>
    /\ Top.phase = "open"
    /\ opens' = Bump(opens, Top.file)
    /\ IF CanOpen(Top.file)
       THEN /\ stack' = SetTop([Top EXCEPT !.phase = "scan"])
            /\ ret' = "none"
            /\ UNCHANGED activeIncludes
       ELSE /\ activeIncludes' = Erase(activeIncludes, Top.file)
            /\ stack' = Pop
            /\ ret' = "false"
    /\ UNCHANGED <<fs, unreadable, pc, argc, inputFile, exitCode, walkResult, outputOpened,
                   called, visited>>
    /\ UNCHANGED emitVars

ScanContinues_OffByOne(fr) ==
    fr.pos <= Len(fs[fr.file]) /\ fr.nfc <= ScanWindow

(* The loop condition of line 91. *)
ScanContinues(fr) == fr.pos <= Len(fs[fr.file]) /\ fr.nfc < ScanWindow

Scanning ==
    /\ pc = "walk"
    /\ stack # <<>>
    /\ Top.phase = "scan"
    /\ ret = "none"

CurLine == fs[Top.file][Top.pos]

(* Lines 94-105: a directive with its closing quote: call findIncludes on  *)
(* the included file at depth + 1.  A call the stack cannot hold ends the  *)
(* process.                                                                *)
ScanInclude ==
    /\ Scanning
    /\ ScanContinues(Top)
    /\ IsValidDirective(CurLine)
    /\ visited' = visited \cup {<<Top.file, Top.pos>>}
    /\ IF Top.depth + 1 > MaxDepth
       THEN /\ pc' = "crash"
            /\ UNCHANGED stack
       ELSE /\ stack' = Append(stack,
                   Frame(ResolvePath(IncludedName(CurLine)), Top.depth + 1))
            /\ UNCHANGED pc
    /\ UNCHANGED <<fs, unreadable, argc, inputFile, exitCode, walkResult, outputOpened,
                   activeIncludes, ret, called, opens>>
    /\ UNCHANGED emitVars

AfterCall_IgnoresFailure ==
    /\ pc = "walk"
    /\ stack # <<>>
    /\ Top.phase = "scan"
    /\ ret # "none"
    /\ stack' = SetTop([Top EXCEPT !.pos = @ + 1, !.nfc = 0])
    /\ ret' = "none"
    /\ UNCHANGED <<fs, unreadable, pc, argc, inputFile, exitCode, walkResult,
                   outputOpened, activeIncludes, called, opens, visited>>
    /\ UNCHANGED emitVars

(* Lines 105-111: the recursive call has returned. *)
AfterCall ==
    /\ pc = "walk"
    /\ stack # <<>>
    /\ Top.phase = "scan"
    /\ ret # "none"
    /\ IF ret = "false"
       THEN /\ activeIncludes' = Erase(activeIncludes, Top.file)
            /\ stack' = Pop
            /\ ret' = "false"
       ELSE /\ stack' = SetTop([Top EXCEPT !.pos = @ + 1, !.nfc = 0])
            /\ ret' = "none"
            /\ UNCHANGED activeIncludes
    /\ UNCHANGED <<fs, unreadable, pc, argc, inputFile, exitCode, walkResult, outputOpened,
                   called, opens, visited>>
    /\ UNCHANGED emitVars

ScanMalformed_Aborts ==
    /\ Scanning
    /\ ScanContinues(Top)
    /\ IsDirectiveLine(CurLine)
    /\ ~IsValidDirective(CurLine)
    /\ activeIncludes' = Erase(activeIncludes, Top.file)
    /\ stack' = Pop
    /\ ret' = "false"
    /\ UNCHANGED <<fs, unreadable, pc, argc, inputFile, exitCode, walkResult,
                   outputOpened, called, opens, visited>>
    /\ UNCHANGED emitVars

(* Lines 113-116: the prefix without a closing quote: a warning only. *)
ScanMalformed ==
    /\ Scanning
    /\ ScanContinues(Top)
    /\ IsDirectiveLine(CurLine)
    /\ ~IsValidDirective(CurLine)
    /\ stack' = SetTop([Top EXCEPT !.pos = @ + 1])
    /\ UNCHANGED <<fs, unreadable, pc, argc, inputFile, exitCode, walkResult, outputOpened,
                   activeIncludes, ret, called, opens, visited>>
    /\ UNCHANGED emitVars

(* Lines 118-121: any other line counts towards the window. *)
ScanOther ==
    /\ Scanning
    /\ ScanContinues(Top)
    /\ ~IsDirectiveLine(CurLine)
    /\ stack' = SetTop([Top EXCEPT !.pos = @ + 1, !.nfc = @ + 1])
    /\ UNCHANGED <<fs, unreadable, pc, argc, inputFile, exitCode, walkResult, outputOpened,
                   activeIncludes, ret, called, opens, visited>>
    /\ UNCHANGED emitVars

(* Lines 124-125: the loop has ended. *)
ScanEnd ==
    /\ Scanning
    /\ ~ScanContinues(Top)
    /\ stack' = Pop
    /\ ret' = "true"
    /\ UNCHANGED <<fs, unreadable, pc, argc, inputFile, exitCode, walkResult, outputOpened,
                   activeIncludes, called, opens, visited>>
    /\ UNCHANGED emitVars

(* Lines 174-177: the root call has returned to main. *)
WalkReturns ==
    /\ pc = "walk"
    /\ stack = <<>>
    /\ ret # "none"
    /\ walkResult' = ret
    /\ ret' = "none"
    /\ pc' = "output"
    /\ UNCHANGED <<fs, unreadable, argc, inputFile, exitCode, outputOpened, activeIncludes,
                   stack, called, opens, visited>>
    /\ UNCHANGED emitVars

----------------------------------------------------------------------------
IsDescending_Ascending(m, s) ==
    \A i \in 1..Len(s), j \in 1..Len(s) : i < j => m[s[i]] <= m[s[j]]

(* convertActiveIncludesToVector: the keys of the map sorted by value,     *)
(* descending.  std::sort leaves the order of equal values unspecified, so *)
(* every descending arrangement is a possible result.                      *)
IsDescending(m, s) ==
    \A i \in 1..Len(s), j \in 1..Len(s) : i < j => m[s[i]] >= m[s[j]]

convertActiveIncludesToVector(m) ==
    LET n == Cardinality(DOMAIN m)
    IN  {s \in [1..n -> DOMAIN m] :
            /\ \A i \in 1..n, j \in 1..n : i # j => s[i] # s[j]
            /\ IsDescending(m, s)}

(* Lines 185-193: the output file cannot be opened. *)
OutputFail ==
    /\ pc = "output"
    /\ argc = 3
    /\ exitCode' = 1
    /\ pc' = "done"
    /\ UNCHANGED <<fs, unreadable, argc, inputFile, walkResult, outputOpened>>
    /\ UNCHANGED walkVars
    /\ UNCHANGED emitVars

(* Lines 182-197: the output stream is ready (the file of argv[2], opened  *)
(* and truncated, or stdout) and the vector of files is built.             *)
BeginEmit ==
    /\ pc = "output"
    /\ outputOpened' = (argc = 3)
    /\ includes' \in convertActiveIncludesToVector(activeIncludes)
    /\ emitPos' = 1
    /\ pc' = "emit"
    /\ UNCHANGED <<fs, unreadable, argc, inputFile, exitCode, walkResult,
                   output, emitted, emitSkipped>>
    /\ UNCHANGED walkVars

(* Lines 201-224, one iteration: the file opens and its lines are copied.  *)
EmitFile ==
    /\ pc = "emit"
    /\ emitPos <= Len(includes)
    /\ includes[emitPos] \in DOMAIN fs
    /\ output' = output \o EmitLines(fs[includes[emitPos]])
    /\ emitted' = Append(emitted, includes[emitPos])
    /\ emitPos' = emitPos + 1
    /\ UNCHANGED <<fs, unreadable, pc, argc, inputFile, exitCode, walkResult,
                   outputOpened, includes, emitSkipped>>
    /\ UNCHANGED walkVars

EmitSkip_Aborts ==
    /\ pc = "emit"
    /\ emitPos <= Len(includes)
    /\ Cardinality(emitSkipped) < MaxEmitFailures
    /\ emitSkipped' = emitSkipped \cup {includes[emitPos]}
    /\ emitPos' = Len(includes) + 1
    /\ UNCHANGED <<fs, unreadable, pc, argc, inputFile, exitCode, walkResult,
                   outputOpened, includes, output, emitted>>
    /\ UNCHANGED walkVars

(* Lines 203-209, one iteration: the file does not open (it may have been  *)
(* removed or protected since the walk read it) and is skipped.            *)
EmitSkip ==
    /\ pc = "emit"
    /\ emitPos <= Len(includes)
    /\ Cardinality(emitSkipped) < MaxEmitFailures
    /\ emitSkipped' = emitSkipped \cup {includes[emitPos]}
    /\ emitPos' = emitPos + 1
    /\ UNCHANGED <<fs, unreadable, pc, argc, inputFile, exitCode, walkResult,
                   outputOpened, includes, output, emitted>>
    /\ UNCHANGED walkVars

Finish_FailsOnWalkError ==
    /\ pc = "emit"
    /\ emitPos > Len(includes)
    /\ exitCode' = (IF walkResult = "false" THEN 1 ELSE 0)
    /\ pc' = "done"
    /\ UNCHANGED <<fs, unreadable, argc, inputFile, walkResult, outputOpened>>
    /\ UNCHANGED walkVars
    /\ UNCHANGED emitVars

(* Lines 226-231. *)
Finish ==
    /\ pc = "emit"
    /\ emitPos > Len(includes)
    /\ exitCode' = 0
    /\ pc' = "done"
    /\ UNCHANGED <<fs, unreadable, argc, inputFile, walkResult, outputOpened>>
    /\ UNCHANGED walkVars
    /\ UNCHANGED emitVars

----------------------------------------------------------------------------
Next ==
    \/ MainUsage
    \/ MainRootMissing
    \/ MainStartWalk
    \/ Enter
    \/ Open
    \/ ScanInclude
    \/ AfterCall
    \/ ScanMalformed
    \/ ScanOther
    \/ ScanEnd
    \/ WalkReturns
    \/ OutputFail
    \/ BeginEmit
    \/ EmitFile
    \/ EmitSkip
    \/ Finish

Spec == Init /\ [][Next]_vars

----------------------------------------------------------------------------
(* The include graph of the input, as the scan reads it. *)

(* The paths the valid directives of file f resolve to. *)
IncludesOf(f) ==
    IF f \in DOMAIN fs
    THEN {ResolvePath(IncludedName(fs[f][i])) :
             i \in {j \in 1..Len(fs[f]) : IsValidDirective(fs[f][j])}}
    ELSE {}

RECURSIVE Closure(_)
Closure(S) ==
    LET T == S \cup UNION {IncludesOf(f) : f \in S}
    IN  IF T = S THEN S ELSE Closure(T)

Reachable == Closure({Root})              \* the root and all it includes
IncludedBy(f) == Closure(IncludesOf(f))   \* what f includes, directly or not

CyclicInput == \E f \in Reachable : f \in IncludedBy(f)
AcyclicInput == ~CyclicInput

(* The value of nothingFoundCount when line i of a file is about to be     *)
(* read, every recursive call having succeeded.                            *)
RECURSIVE NfcBefore(_, _)
NfcBefore(lines, i) ==
    IF i = 1 THEN 0
    ELSE IF IsValidDirective(lines[i - 1]) THEN 0
    ELSE IF IsDirectiveLine(lines[i - 1]) THEN NfcBefore(lines, i - 1)
    ELSE NfcBefore(lines, i - 1) + 1

LineIsRead(lines, i) == \A j \in 1..i : NfcBefore(lines, j) < ScanWindow

(* Every directive of every reachable file lies inside the scan window. *)
AllInWindow ==
    \A f \in Reachable \cap DOMAIN fs :
        \A i \in 1..Len(fs[f]) :
            IsValidDirective(fs[f][i]) => LineIsRead(fs[f], i)

(* Every file the walk can reach exists and can be read. *)
AllOpenable == unreadable = {} /\ Reachable \subseteq DOMAIN fs

Count(s, x) == Cardinality({i \in 1..Len(s) : s[i] = x})
PosIn(s, x) == CHOOSE i \in 1..Len(s) : s[i] = x
MaxOf(S) == CHOOSE x \in S : \A y \in S : y <= x
Range(s) == {s[i] : i \in 1..Len(s)}

(* The emission pass ran to the end over files that all opened, after a    *)
(* walk that succeeded on an input that is all openable and in window.     *)
CleanRun ==
    /\ pc = "done"
    /\ exitCode = 0
    /\ walkResult = "true"
    /\ emitSkipped = {}
    /\ AllOpenable
    /\ AllInWindow

----------------------------------------------------------------------------
(* C1: on every input in which some file includes itself, directly or     *)
(* indirectly (all files openable, all directives in the scan window),     *)
(* the walk started on the root at depth 0 terminates: the recursion       *)
(* never exhausts the call stack and the walk does not return failure.     *)
C1_CyclicWalkTerminates ==
    (pc # "start" /\ CyclicInput /\ AllOpenable /\ AllInWindow)
        => (pc # "crash" /\ walkResult # "false")

(* C2: after a walk that succeeded on an input whose files are all         *)
(* openable and whose directives are all in the scan window, every file    *)
(* reachable from the root has been copied to the output exactly once.     *)
C2_ReachableFilesEmittedOnce ==
    CleanRun => \A f \in Reachable : Count(emitted, f) = 1

C2_Witness ==
    /\ CleanRun
    /\ CyclicInput
    /\ Cardinality(Reachable) >= 2
    /\ Len(emitted) = Cardinality(Reachable)

(* C3: on every acyclic input (all files openable, all directives in the   *)
(* scan window), whenever file F includes file G the walk ends with G      *)
(* recorded strictly deeper than F, and G is emitted before F.             *)
C3_IncludedFileEmittedFirst ==
    (CleanRun /\ AcyclicInput) =>
        \A F \in Reachable : \A G \in IncludesOf(F) :
            /\ activeIncludes[G] > activeIncludes[F]
            /\ PosIn(emitted, G) < PosIn(emitted, F)

(* C4: at every point, the depth recorded for a file that has an entry is  *)
(* the largest depth findIncludes has been entered with on that file, and  *)
(* no step lowers the value of an entry.                                   *)
C4_RecordedDepthIsLargest ==
    /\ [](\A p \in DOMAIN activeIncludes :
            activeIncludes[p] = MaxOf({c[2] : c \in {x \in called : x[1] = p}}))
    /\ [][\A p \in DOMAIN activeIncludes \cap DOMAIN activeIncludes' :
            activeIncludes'[p] >= activeIncludes[p]]_vars

C4_Witness ==
    /\ pc = "output"
    /\ walkResult = "true"
    /\ \E p \in DOMAIN activeIncludes :
        /\ <<p, 1>> \in called
        /\ <<p, 2>> \in called
        /\ activeIncludes[p] = 2

(* C5: the output is, file after file in emission order, the lines of the  *)
(* file that do not contain the text #include anywhere, in their order.    *)
HasIncludeWord(line) ==
    \E i \in 1..Len(line) :
        /\ i + 7 <= Len(line)
        /\ line[i] = "#" /\ line[i + 1] = "i" /\ line[i + 2] = "n"
        /\ line[i + 3] = "c" /\ line[i + 4] = "l" /\ line[i + 5] = "u"
        /\ line[i + 6] = "d" /\ line[i + 7] = "e"

RECURSIVE WithoutIncludeLines(_)
WithoutIncludeLines(lines) ==
    IF lines = <<>> THEN <<>>
    ELSE (IF HasIncludeWord(Head(lines)) THEN <<>> ELSE <<Head(lines)>>)
            \o WithoutIncludeLines(Tail(lines))

RECURSIVE ExpectedOutput(_)
ExpectedOutput(files) ==
    IF files = <<>> THEN <<>>
    ELSE WithoutIncludeLines(fs[Head(files)]) \o ExpectedOutput(Tail(files))

C5_OutputIsFilteredLines == output = ExpectedOutput(emitted)

C5_Witness ==
    /\ pc = "done"
    /\ output = <<Plain>>
    /\ \E i \in 1..Len(emitted) :
        {Mention, Plain} \subseteq Range(fs[emitted[i]])

(* C6: a line that starts with the prefix #include " and has no closing   *)
(* quote changes nothing but the scan position: no call is made, the       *)
(* depth map and the window counter are unchanged, the call does not       *)
(* return, and the scan goes on to the following line when there is one.   *)
NoClosingQuote(line) ==
    \A i \in (Len(IncludePrefix) + 1)..Len(line) : line[i] # "\""

AtMalformedLine ==
    /\ pc = "walk"
    /\ stack # <<>>
    /\ Top.phase = "scan"
    /\ ret = "none"
    /\ Top.pos <= Len(fs[Top.file])
    /\ Top.nfc < ScanWindow
    /\ StartsWith(CurLine, IncludePrefix)
    /\ NoClosingQuote(CurLine)

C6_MalformedDirectiveIsSkipped ==
    [][AtMalformedLine =>
        /\ pc' = "walk"
        /\ ret' = "none"
        /\ activeIncludes' = activeIncludes
        /\ called' = called
        /\ stack' = SetTop([Top EXCEPT !.pos = @ + 1])
        /\ (Top.pos < Len(fs[Top.file]) =>
                /\ stack'[Len(stack')].pos <= Len(fs[Top.file])
                /\ stack'[Len(stack')].nfc < ScanWindow)]_vars

C6_Witness ==
    /\ pc = "output"
    /\ walkResult = "true"
    /\ Len(fs[Root]) = 2
    /\ fs[Root][1] = Malformed
    /\ fs[Root][2] = Directive("b")
    /\ <<"b", 1>> \in called

(* C7: after a walk that returned failure the emission pass still runs     *)
(* over every file left in the depth map and the exit code is 0, unless    *)
(* the output file does not open; the exit code is 1 only for a wrong      *)
(* argument count, an input file that does not resolve, or an output file  *)
(* that does not open.                                                     *)
OutputOpenFailed ==
    pc = "done" /\ walkResult # "none" /\ argc = 3 /\ ~outputOpened

C7_FailedWalkStillEmits ==
    /\ (pc = "done" /\ walkResult = "false" /\ ~OutputOpenFailed) =>
            /\ exitCode = 0
            /\ Range(includes) = DOMAIN activeIncludes
            /\ emitPos = Len(includes) + 1
            /\ Range(emitted) \cup emitSkipped = DOMAIN activeIncludes
    /\ (pc = "done" /\ exitCode = 1) =>
            \/ argc < 2
            \/ argc > 3
            \/ inputFile \notin DOMAIN fs
            \/ OutputOpenFailed

C7_Witness ==
    /\ pc = "done"
    /\ walkResult = "false"
    /\ exitCode = 0
    /\ emitted # <<>>

(* C8: with no argument or with three or more (argc 1, or argc 4 and up)   *)
(* main exits with code 1 before any processing: no walk, an empty depth   *)
(* map, no output file opened, nothing written.                            *)
C8_UsageErrorDoesNothing ==
    (pc # "start" /\ (argc - 1 = 0 \/ argc - 1 >= 3)) =>
        /\ pc = "done"
        /\ exitCode = 1
        /\ activeIncludes = EmptyMap
        /\ called = {}
        /\ opens = EmptyMap
        /\ stack = <<>>
        /\ walkResult = "none"
        /\ ~outputOpened
        /\ output = <<>>
        /\ emitted = <<>>

C8_Witness ==
    /\ pc = "done"
    /\ argc = 4
    /\ exitCode = 1

(* C9: a call of findIncludes on a file whose recorded depth is at least   *)
(* the call's depth leaves the depth map unchanged, opens nothing, makes   *)
(* no recursive call and returns success at once.                          *)
AtRevisit ==
    /\ pc = "walk"
    /\ stack # <<>>
    /\ Top.phase = "enter"
    /\ Top.file \in DOMAIN activeIncludes

C9_ShallowerRevisitReturnsAtOnce ==
    [][(AtRevisit /\ activeIncludes[Top.file] >= Top.depth) =>
        /\ activeIncludes' = activeIncludes
        /\ opens' = opens
        /\ stack' = Pop
        /\ ret' = "true"]_vars

OthersKept(p) ==
    /\ DOMAIN activeIncludes' = DOMAIN activeIncludes \ {p}
    /\ \A q \in DOMAIN activeIncludes' : activeIncludes'[q] = activeIncludes[q]

AtFailingOpen ==
    /\ pc = "walk"
    /\ stack # <<>>
    /\ Top.phase = "open"
    /\ (Top.file \notin DOMAIN fs \/ Top.file \in unreadable)

AtFailedCall ==
    /\ pc = "walk"
    /\ stack # <<>>
    /\ ret = "false"

C11_OpenFailureUnwinds ==
    [][(AtFailingOpen \/ AtFailedCall) =>
        /\ OthersKept(Top.file)
        /\ stack' = Pop
        /\ ret' = "false"
        /\ called' = called
        /\ visited' = visited
        /\ (AtFailedCall => opens' = opens)]_vars

C11_Witness ==
    /\ pc = "walk"
    /\ stack = <<>>
    /\ ret = "false"
    /\ Cardinality({c[1] : c \in called}) >= 3
    /\ DOMAIN activeIncludes # {}
    /\ \A c \in called : c[2] = 0 => c[1] \notin DOMAIN activeIncludes

(* C12, as claimed: the scan stops once 5 lines have been read since the  *)
(* last successful match (or since the start of the file): in a walk that  *)
(* returns success, a valid directive of an opened file is visited if      *)
(* fewer than 5 lines have been read since then and is not visited         *)
(* otherwise (stated where the walk has just returned to main).            *)
RECURSIVE ReadSinceMatch(_, _)
ReadSinceMatch(lines, i) ==
    IF i = 1 THEN 0
    ELSE IF IsValidDirective(lines[i - 1])
            /\ ReadSinceMatch(lines, i - 1) < ScanWindow
         THEN 0
         ELSE ReadSinceMatch(lines, i - 1) + 1

C12_VisitedIffFewLinesRead ==
    (pc = "output" /\ walkResult = "true") =>
        \A f \in DOMAIN opens : \A i \in 1..Len(fs[f]) :
            IsValidDirective(fs[f][i]) =>
                (<<f, i>> \in visited <=> ReadSinceMatch(fs[f], i) < ScanWindow)

(* C12, amended: the counter is raised by every line that does not begin   *)
(* with the prefix #include ", reset to 0 by a successful match and left   *)
(* as it is by a malformed directive line: in a walk that returns success, *)
(* a valid directive of an opened file is visited if and only if the       *)
(* counter stayed below 5 up to it (a root with 5 or more plain lines      *)
(* before its first directive never discovers the included file).          *)
C12_VisitedIffInWindow ==
    (pc = "output" /\ walkResult = "true") =>
        \A f \in DOMAIN opens : \A i \in 1..Len(fs[f]) :
            IsValidDirective(fs[f][i]) =>
                (<<f, i>> \in visited <=> LineIsRead(fs[f], i))

C12_Witness ==
    /\ pc = "output"
    /\ walkResult = "true"
    /\ fs[Root] = Rep(Plain, 4) \o <<Directive("b")>>
                    \o Rep(Plain, 5) \o <<Directive("c")>>
    /\ <<Root, 5>> \in visited
    /\ <<Root, 11>> \notin visited
    /\ DOMAIN activeIncludes = {Root, "b"}

(* C13: the emission order is a permutation of the keys of the final     *)
(* depth map in which no file comes before a file recorded deeper, and the *)
(* files are handled one by one in that order, each once: the files copied *)
(* so far are the handled part of the order, less the files that did not   *)
(* open.                                                                   *)
EmissionStarted == pc = "emit" \/ (pc = "done" /\ exitCode = 0)

RECURSIVE Without(_, _)
Without(s, S) ==
    IF s = <<>> THEN <<>>
    ELSE (IF Head(s) \in S THEN <<>> ELSE <<Head(s)>>) \o Without(Tail(s), S)

C13_EmissionOrderIsSortedPermutation ==
    EmissionStarted =>
        /\ Len(includes) = Cardinality(DOMAIN activeIncludes)
        /\ Range(includes) = DOMAIN activeIncludes
        /\ \A i \in 1..Len(includes), j \in 1..Len(includes) :
              i < j => activeIncludes[includes[i]] >= activeIncludes[includes[j]]
        /\ emitPos \in 1..(Len(includes) + 1)
        /\ (pc = "done" => emitPos = Len(includes) + 1)
        /\ emitted = Without(SubSeq(includes, 1, emitPos - 1), emitSkipped)

C13_Witness ==
    /\ pc = "done"
    /\ exitCode = 0
    /\ emitSkipped = {}
    /\ Len(includes) >= 3
    /\ activeIncludes[includes[1]] > activeIncludes[includes[2]]
    /\ activeIncludes[includes[2]] > activeIncludes[includes[3]]
    /\ emitted = includes

(* C14: a file that does not open in the emission pass has none of its     *)
(* content written and does not stop the pass: every other file of the     *)
(* emission order is copied once, in full and in order, and main still     *)
(* returns 0.                                                              *)
C14_UnopenableFileIsSkipped ==
    (pc = "done" /\ emitSkipped # {}) =>
        /\ exitCode = 0
        /\ \A f \in Range(includes) :
              Count(emitted, f) = (IF f \in emitSkipped THEN 0 ELSE 1)
        /\ output = ExpectedOutput(Without(includes, emitSkipped))

C14_Witness ==
    /\ pc = "done"
    /\ exitCode = 0
    /\ Len(includes) = 2
    /\ includes[1] \in emitSkipped
    /\ fs[includes[1]] = <<Plain>>
    /\ emitted = <<includes[2]>>
    /\ output = <<Plain>>

(* C15: the walk returns success if and only if the root has an entry in  *)
(* the depth map when it ends; after a failed walk the root's content is   *)
(* never emitted; and no file whose open failed has an entry.              *)
OpenFailedFiles ==
    {p \in DOMAIN opens : p \notin DOMAIN fs \/ p \in unreadable}

C15_SuccessIffRootRecorded ==
    walkResult # "none" =>
        /\ (walkResult = "true" <=> Root \in DOMAIN activeIncludes)
        /\ (walkResult = "false" => Root \notin Range(emitted))
        /\ \A p \in OpenFailedFiles : p \notin DOMAIN activeIncludes

C15_Witness ==
    /\ pc = "done"
    /\ exitCode = 0
    /\ walkResult = "false"
    /\ Missing \in OpenFailedFiles
    /\ emitted # <<>>
    /\ Root \notin DOMAIN activeIncludes

(* C16: at every point of the walk, every frame that has passed the        *)
(* revisit check has an entry for its file, recorded at least as deep as   *)
(* the frame, and each frame is one deeper than its caller (root = 0).     *)
C16_FramesHaveEntries ==
    \A i \in 1..Len(stack) :
        /\ stack[i].depth = i - 1
        /\ stack[i].phase # "enter" =>
              /\ stack[i].file \in DOMAIN activeIncludes
              /\ activeIncludes[stack[i].file] >= stack[i].depth

====
